---- MODULE Spec2Model ----
(***************************************************************************)
(* Model of the two HTTP mail services (src/main.py, src/src/main.py), the *)
(* SMTP sender (src/src/email_service/send_email.py), the keep-alive job   *)
(* (src/src/cron/keep_alive.py) and the scheduler bootstrap.               *)
(***************************************************************************)
EXTENDS Integers, Sequences, FiniteSets, TLC

VARIABLES
    environ,      \* os.environ of the process after the start-up loading
    schPc,        \* start_scheduler_with_retry: "try" | "sleep" | "returned" | "raised"
    schAttempt,   \* its loop variable `attempt`
    schLog,       \* what it did so far: attempts (FAIL, OK; numbered) and SLEEPs (seconds)
    runners,      \* number of BackgroundSchedulers running with the job
    atexitHooks,  \* number of registered shutdown actions
    kaPc,         \* keep_alive_job: "idle" | "attempt" | "sleep" | "returned" | "raised"
    kaI,          \* its loop variable `i`
    kaLog,        \* what the current invocation did: GETs (with status) and SLEEPs (seconds)
    req,          \* the last HTTP request handled
    resp,         \* its response
    calls,        \* the calls of a sender made while handling it
    fx,           \* the other effects of handling it (render, pdf, log reads)
    logsDir,      \* the logs directory as gather_service_logs found it for the request
    loggers,      \* the logging module's loggers: name -> level and handlers
    acquired,     \* the names get_logger has returned a logger for
    logCall,      \* the last call of get_logger
    kaElapsed,    \* seconds since the firing that started the keep-alive execution
    kaLongest,    \* seconds its longest GET took
    kaSkipped,    \* firings the runner skipped because the execution was in progress
    kaOverlap     \* executions the runner started while one was in progress

vars == <<environ, schPc, schAttempt, schLog, runners, atexitHooks,
          kaPc, kaI, kaLog, req, resp, calls, fx, logsDir,
          loggers, acquired, logCall, kaElapsed, kaLongest, kaSkipped, kaOverlap>>

loggerVars == <<loggers, acquired, logCall>>
timeVars == <<kaElapsed, kaLongest, kaSkipped, kaOverlap>>

schVars == <<schPc, schAttempt, schLog, runners, atexitHooks>>
kaVars == <<kaPc, kaI, kaLog>>
httpVars == <<req, resp, calls, fx, logsDir>>

None == "None"

\* Python truthiness of an optional string
Truthy(s) == s # None /\ s # ""

-----------------------------------------------------------------------------
(* Environment *)

EMAIL_SENDER_KEY == <<"EMAIL", "SENDER">>
EMAIL_PASSWORD_KEY == <<"EMAIL", "PASSWORD">>
API_URL_KEY == <<"API", "URL">>

\* os.getenv(key)
Getenv(env, key) == IF key \in DOMAIN env THEN env[key] ELSE None

\* `term in key` for the terms the code looks for, each a whole word of the name
TermIn(term, key) == \E n \in 1..Len(key) : key[n] = term

SenderValues == {"s1@mail", "s2@mail"}
PasswordValues == {"pw1", "pw2"}
UrlValues == {"http://self/"}

ValuesOf(key) ==
    IF key = EMAIL_SENDER_KEY THEN SenderValues
    ELSE IF key = EMAIL_PASSWORD_KEY THEN PasswordValues
    ELSE UrlValues

EnvKeys == {EMAIL_SENDER_KEY, EMAIL_PASSWORD_KEY, API_URL_KEY}

\* every environment over the modelled variables
Environs ==
    UNION { { e \in [K -> SenderValues \cup PasswordValues \cup UrlValues] :
                \A k \in K : e[k] \in ValuesOf(k) } : K \in SUBSET EnvKeys }

\* the .env files of a development checkout: none, or one with the mail settings
DotenvFiles ==
    { [k \in {} |-> ""],
      [k \in {EMAIL_SENDER_KEY, EMAIL_PASSWORD_KEY} |->
          IF k = EMAIL_SENDER_KEY THEN "s1@mail" ELSE "pw1"] }

\* dotenv.load_dotenv(): sets the variables of the file the process lacks
load_dotenv(env, file) ==
    [k \in DOMAIN env \cup DOMAIN file |->
        IF k \in DOMAIN env THEN env[k] ELSE file[k]]

\* load_environment_variables(): the .env file is read only when a setting lacks
load_environment_variables(env, file) ==
    IF ~Truthy(Getenv(env, EMAIL_SENDER_KEY)) \/ ~Truthy(Getenv(env, EMAIL_PASSWORD_KEY))
    THEN load_dotenv(env, file)
    ELSE env

EMAIL_SENDER == Getenv(environ, EMAIL_SENDER_KEY)
EMAIL_PASSWORD == Getenv(environ, EMAIL_PASSWORD_KEY)

-----------------------------------------------------------------------------
(* Scheduler bootstrap: start_scheduler_with_retry(retries=3, delay=5) *)

retries == 3
delay == 5

\* what one attempt to create, fill and start the runner can end in
StartOutcomes == {"ok", "ctor_raises", "add_job_raises", "start_raises"}

\* `except Exception` of the bootstrap loop
SchedulerCatches(outcome) == outcome \in StartOutcomes \ {"ok"}

\* the bootstrap loop, sleeping after the last failed attempt as well
SchedulerRetriesAfterLast(attempt) == attempt < retries

\* `if attempt < retries - 1` : sleep and go round again
SchedulerRetries(attempt) == attempt < retries - 1

SchedulerAttempt(outcome) ==
    /\ schPc = "try"
    /\ schAttempt < retries
    /\ IF outcome = "ok"
       THEN /\ runners' = runners + 1
            /\ atexitHooks' = atexitHooks + 1
            /\ schLog' = Append(schLog, [ev |-> "OK", n |-> schAttempt + 1])
            /\ schPc' = "returned"
            /\ UNCHANGED schAttempt
       ELSE /\ UNCHANGED <<runners, atexitHooks>>
            /\ schLog' = Append(schLog, [ev |-> "FAIL", n |-> schAttempt + 1])
            /\ IF ~SchedulerCatches(outcome)
               THEN schPc' = "raised" /\ UNCHANGED schAttempt
               ELSE IF SchedulerRetries(schAttempt)
                    THEN schPc' = "sleep" /\ UNCHANGED schAttempt
                    ELSE /\ schAttempt' = schAttempt + 1
                         /\ schPc' = IF schAttempt + 1 < retries THEN "try" ELSE "returned"
    /\ UNCHANGED <<environ, kaVars, httpVars, loggerVars, timeVars>>

SchedulerSleep ==
    /\ schPc = "sleep"
    /\ schLog' = Append(schLog, [ev |-> "SLEEP", n |-> delay])
    /\ schAttempt' = schAttempt + 1
    /\ schPc' = IF schAttempt + 1 < retries THEN "try" ELSE "returned"
    /\ UNCHANGED <<runners, atexitHooks, environ, kaVars, httpVars, loggerVars, timeVars>>

\* the module goes on to create the FastAPI app once the bootstrap returned
LogServiceServing == schPc = "returned"

-----------------------------------------------------------------------------
(* Keep-alive job: keep_alive_job() *)

max_retries == 3

\* what requests.get(url, timeout=10) can end in: a status, or an exception
GetOutcomes ==
    { [exc |-> None, n |-> 200], [exc |-> None, n |-> 500], [exc |-> "Timeout", n |-> 0] }

\* send_keep_alive(): True on 200, otherwise the exception it raises
send_keep_alive(outcome) ==
    IF outcome.exc # None THEN "RequestException"
    ELSE IF outcome.n = 200 THEN "True"
    ELSE "ValueError"

\* `except Exception` of the retry loop
KeepAliveCatches(exc) == exc \in {"RequestException", "ValueError"}

\* the retry loop, sleeping after the last failed GET as well
KeepAliveRetriesAfterLast(i) == i < max_retries

\* `if i < max_retries - 1` : sleep and go round again
KeepAliveRetries(i) == i < max_retries - 1

\* the runner fires the job; it runs one instance of a job at a time, so a firing
\* finds no invocation in progress
KeepAliveInvoke ==
    /\ runners > 0
    /\ kaPc \in {"idle", "returned"}
    /\ kaLog' = <<>>
    /\ kaI' = 0
    /\ kaPc' = IF ~Truthy(Getenv(environ, API_URL_KEY)) THEN "returned" ELSE "attempt"
    /\ UNCHANGED <<environ, schVars, httpVars, loggerVars>>

KeepAliveAttempt(outcome) ==
    /\ kaPc = "attempt"
    /\ kaI < max_retries
    /\ kaLog' = Append(kaLog, [ev |-> "GET", exc |-> outcome.exc, n |-> outcome.n])
    /\ LET r == send_keep_alive(outcome) IN
         IF r = "True"
         THEN kaPc' = "returned" /\ UNCHANGED kaI
         ELSE IF ~KeepAliveCatches(r)
              THEN kaPc' = "raised" /\ UNCHANGED kaI
              ELSE IF KeepAliveRetries(kaI)
                   THEN kaPc' = "sleep" /\ UNCHANGED kaI
                   ELSE /\ kaI' = kaI + 1
                        /\ kaPc' = IF kaI + 1 < max_retries THEN "attempt" ELSE "returned"
    /\ UNCHANGED <<environ, schVars, httpVars, loggerVars>>

KeepAliveSleep ==
    /\ kaPc = "sleep"
    /\ kaLog' = Append(kaLog, [ev |-> "SLEEP", exc |-> None, n |-> 5])
    /\ kaI' = kaI + 1
    /\ kaPc' = IF kaI + 1 < max_retries THEN "attempt" ELSE "returned"
    /\ UNCHANGED <<environ, schVars, httpVars, loggerVars>>

-----------------------------------------------------------------------------
(* SMTP senders *)

\* where the session with the mail relay can break; "ok" when nothing does
SmtpOutcomes ==
    {"ok", "build_raises", "connect_raises", "login_raises", "send_raises", "quit_raises"}

\* the exception each failing step raises
SmtpException(net) ==
    CASE net = "build_raises" -> "TypeError"
      [] net = "connect_raises" -> "OSError"
      [] net = "login_raises" -> "SMTPAuthenticationError"
      [] net = "send_raises" -> "SMTPRecipientsRefused"
      [] net = "quit_raises" -> "SMTPResponseException"
      [] OTHER -> None

\* with smtplib.SMTP_SSL(...) as server: server.login(...); server.send...(...)
\* : the steps started, in order, until the one that raises
SmtpSession(net) ==
    CASE net = "build_raises" -> <<>>
      [] net = "connect_raises" -> <<"CONNECT">>
      [] net = "login_raises" -> <<"CONNECT", "LOGIN">>
      [] net = "send_raises" -> <<"CONNECT", "LOGIN", "SEND">>
      [] OTHER -> <<"CONNECT", "LOGIN", "SEND", "QUIT">>

\* `except Exception as e` of send_email_via_smtp
SmtpSenderCatches(exc) == exc # None

\* send_email catching smtplib's own exceptions only
SenderCatchesSmtpOnly(exc) ==
    exc \in {"SMTPAuthenticationError", "SMTPRecipientsRefused", "SMTPResponseException"}

\* `except Exception as e` of send_email
SenderCatches(exc) == exc # None

\* the record of one call of a sender: what it was given, what it did, what it gave
Call(fn, mail, net, steps, ret, raised) ==
    [fn |-> fn, mail |-> mail, net |-> net, smtp |-> steps, ret |-> ret, raised |-> raised]

\* send_email_via_smtp(to, subject, text_content, html_content) of src/main.py
send_email_via_smtp(sender, password, mail, net) ==
    IF ~Truthy(sender) \/ ~Truthy(password)
    THEN Call("send_email_via_smtp", mail, net, <<>>, FALSE, None)
    ELSE LET exc == SmtpException(net) IN
         IF exc = None
         THEN Call("send_email_via_smtp", mail, net, SmtpSession(net), TRUE, None)
         ELSE IF SmtpSenderCatches(exc)
              THEN Call("send_email_via_smtp", mail, net, SmtpSession(net), FALSE, None)
              ELSE Call("send_email_via_smtp", mail, net, SmtpSession(net), FALSE, exc)

\* send_email(receiver_email, subject, plain_body, html_body, attachments)
send_email(mail, net) ==
    LET exc == SmtpException(net) IN
    IF exc = None
    THEN Call("send_email", mail, net, SmtpSession(net), TRUE, None)
    ELSE IF SenderCatches(exc)
         THEN Call("send_email", mail, net, SmtpSession(net), FALSE, None)
         ELSE Call("send_email", mail, net, SmtpSession(net), FALSE, exc)

Mail(to, subject, text, html, attachments) ==
    [to |-> to, subject |-> subject, text |-> text, html |-> html,
     attachments |-> attachments]

send_no_logs_email(receiver_email, date, net) ==
    send_email(Mail(receiver_email,
                    <<"No Logs Available - ", date>>,
                    <<"No logs were generated for ", date, ".">>,
                    <<"<html><body><h2>No Logs Available</h2><p>No logs were generated for ",
                      date, ".</p></body></html>">>,
                    <<>>), net)

send_notification_email(receiver_email, message, net) ==
    send_email(Mail(receiver_email,
                    <<"Notification - Divinely Bot">>,
                    <<"Notification:\n\n", message>>,
                    <<"<html><body><h2>Notification - Divinely Bot</h2><p>",
                      message, "</p></body></html>">>,
                    <<>>), net)

-----------------------------------------------------------------------------
(* HTTP: what both services share *)

\* a JSON body: a function from the fields it carries to their values
HasAll(body, fields) == fields \subseteq DOMAIN body

Response(status, body, unhandled) ==
    [status |-> status, body |-> body, unhandled |-> unhandled]

\* raise HTTPException(status_code, detail): FastAPI's handler answers with it
HTTPException(status, detail) == Response(status, [detail |-> detail], FALSE)

\* the body fails the pydantic model: FastAPI answers 422 before the handler runs
RequestValidationError == Response(422, [detail |-> "validation error"], FALSE)

\* an exception leaves the handler: the server answers 500 Internal Server Error
Unhandled(exc) == Response(500, [detail |-> exc], TRUE)

Outcome(response, sent, effects) == [resp |-> response, calls |-> sent, fx |-> effects]

-----------------------------------------------------------------------------
(* Transactional Email API: src/main.py *)

DataKeys == {"code", "reset_link"}

\* data.get(key, default)
DictGet(data, key, default) == IF key \in DOMAIN data THEN data[key] ELSE default

\* the templates in effect: email_verification.py and password_reset.py are not in
\* the package, the import fails and main.py defines the three templates itself
email_verification_template(data) ==
    [subject |-> "Verify Your Email",
     text |-> <<"Your verification code is: ", DictGet(data, "code", "N/A")>>,
     html |-> <<"<h1>Your verification code is: ", DictGet(data, "code", "N/A"), "</h1>">>]

device_verification_template(data) ==
    [subject |-> "New Device Verification",
     text |-> <<"Verification code: ", DictGet(data, "code", "N/A"),
                " for device: ", DictGet(data, "device_name", "Unknown")>>,
     html |-> <<"<h1>Device Verification</h1><p>Code: ", DictGet(data, "code", "N/A"),
                "</p><p>Device: ", DictGet(data, "device_name", "Unknown"), "</p>">>]

password_reset_template(data) ==
    [subject |-> "Password Reset",
     text |-> <<"Reset your password using this link: ",
                DictGet(data, "reset_link", "N/A")>>,
     html |-> <<"<h1>Password Reset</h1><p><a href='", DictGet(data, "reset_link", "#"),
                "'>Click here to reset your password</a></p>">>]

KnownTypes == {"email_verification", "device_verification", "password_reset"}

\* get_email_template falling back on a template for a type it does not know
get_email_template_with_default(email_type, data) ==
    IF email_type = "device_verification"
    THEN [exc |-> None, content |-> device_verification_template(data)]
    ELSE IF email_type = "password_reset"
    THEN [exc |-> None, content |-> password_reset_template(data)]
    ELSE [exc |-> None, content |-> email_verification_template(data)]

\* get_email_template(email_type, data): the template, or the ValueError it raises
get_email_template(email_type, data) ==
    IF email_type = "email_verification"
    THEN [exc |-> None, content |-> email_verification_template(data)]
    ELSE IF email_type = "device_verification"
    THEN [exc |-> None, content |-> device_verification_template(data)]
    ELSE IF email_type = "password_reset"
    THEN [exc |-> None, content |-> password_reset_template(data)]
    ELSE [exc |-> "ValueError", content |-> <<"Unknown email type: ", email_type>>]

\* class EmailRequest(BaseModel): type: str, to: str, data: Dict[str, Any]
EmailRequestFields == {"type", "to", "data"}

\* `if not request.type or not request.to or not request.data`
MissingRequired(body) == body.type = "" \/ body.to = "" \/ DOMAIN body.data = {}

\* the configuration check looking at the sender address only
NotConfiguredSenderOnly(sender, password) == ~Truthy(sender)

\* `if not EMAIL_SENDER or not EMAIL_PASSWORD`
NotConfigured(sender, password) == ~Truthy(sender) \/ ~Truthy(password)

\* POST /api/send-email
api_send_email(body, sender, password, net) ==
    IF ~HasAll(body, EmailRequestFields)
    THEN Outcome(RequestValidationError, <<>>, <<>>)
    ELSE IF MissingRequired(body)
    THEN Outcome(HTTPException(400, "Missing required fields: type, to, or data"),
                 <<>>, <<>>)
    ELSE IF NotConfigured(sender, password)
    THEN Outcome(HTTPException(500,
                     "Email service not configured - Environment variables missing"),
                 <<>>, <<>>)
    ELSE LET template == get_email_template(body.type, body.data) IN
         IF template.exc = "ValueError"
         THEN Outcome(HTTPException(400, "Unknown email type"), <<>>, <<"TEMPLATE">>)
         ELSE IF template.exc # None
         THEN Outcome(HTTPException(500, "Internal server error"), <<>>, <<"TEMPLATE">>)
         ELSE
         LET email_content == template.content
             call == send_email_via_smtp(sender, password,
                         Mail(body.to, email_content.subject, email_content.text,
                              email_content.html, <<>>), net)
         IN  IF call.raised # None
             THEN Outcome(HTTPException(500, "Internal server error"),
                          <<call>>, <<"TEMPLATE">>)
             ELSE IF call.ret
             THEN Outcome(Response(200,
                              [success |-> TRUE, message |-> "Email sent successfully"],
                              FALSE),
                          <<call>>, <<"TEMPLATE">>)
             ELSE Outcome(HTTPException(500, "Failed to send email"),
                          <<call>>, <<"TEMPLATE">>)

\* the variables of os.environ GET /debug lists, the PASSWORD ones masked
DebugVariables(env) ==
    LET shown == { k \in DOMAIN env :
                     \E term \in {"EMAIL", "SMTP", "RAILWAY"} : TermIn(term, k) }
    IN  [k \in shown |-> IF TermIn("PASSWORD", k) THEN "*****" ELSE env[k]]

\* GET /debug
debug_env(env) ==
    [email_configured |->
        Truthy(Getenv(env, EMAIL_SENDER_KEY)) /\ Truthy(Getenv(env, EMAIL_PASSWORD_KEY)),
     EMAIL_SENDER_set |-> Truthy(Getenv(env, EMAIL_SENDER_KEY)),
     EMAIL_PASSWORD_set |-> Truthy(Getenv(env, EMAIL_PASSWORD_KEY)),
     environment_variables |-> DebugVariables(env)]

\* GET / of the transactional service
root(env) ==
    [success |-> TRUE,
     message |-> "Quantum Robots Email Service is running",
     email_configured |->
        Truthy(Getenv(env, EMAIL_SENDER_KEY)) /\ Truthy(Getenv(env, EMAIL_PASSWORD_KEY))]

-----------------------------------------------------------------------------
(* Log & Notification API: src/src/main.py *)

\* an Optional[str] whose text is a sequence of characters
NoneStr == [some |-> FALSE, s |-> <<>>]
Str(chars) == [some |-> TRUE, s |-> chars]

Whitespace == {" ", "\t", "\n"}

RECURSIVE lstrip(_)
lstrip(s) == IF s # <<>> /\ Head(s) \in Whitespace THEN lstrip(Tail(s)) ELSE s

RECURSIVE rstrip(_)
rstrip(s) ==
    IF s # <<>> /\ s[Len(s)] \in Whitespace THEN rstrip(SubSeq(s, 1, Len(s) - 1)) ELSE s

\* str.strip()
strip(s) == rstrip(lstrip(s))

\* the emptiness check without the strip()
EmptyLogContentUnstripped(logContent) == ~logContent.some \/ logContent.s = <<>>

\* `not request.logContent or request.logContent.strip() == ""`
EmptyLogContent(logContent) ==
    ~logContent.some \/ logContent.s = <<>> \/ strip(logContent.s) = <<>>

\* reportlab's Paragraph raises ValueError on markup it cannot parse
MalformedMarkup(text) == text = "</b>"

\* log_to_pdf_bytes(title, subtitle, content): the document, or the exception
log_to_pdf_bytes(title, subtitle, content) ==
    IF MalformedMarkup(title) \/ MalformedMarkup(subtitle)
    THEN [exc |-> "ValueError", bytes |-> <<>>]
    ELSE [exc |-> None, bytes |-> <<"%PDF", title, subtitle, content>>]

candidates == <<"fastapi.log", "email_service.log">>

FileStates == {"absent", "readable", "unreadable"}

\* the states the logs directory can be in
LogDirs == [{"fastapi.log", "email_service.log"} -> FileStates]

\* gather_service_logs(): the candidates that exist and can be read, in order
gather_service_logs(dir) ==
    LET Exists(fname) == dir[fname] # "absent"
        Reads(fname) == dir[fname] = "readable"
        Kept(fname) == Exists(fname) /\ Reads(fname)
        found == SelectSeq(candidates, Kept)
    IN  [n \in 1..Len(found) |-> [bytes |-> <<"contents", found[n]>>,
                                   filename |-> <<found[n]>>]]

\* class LogRequest(BaseModel): only recipientEmail is required
LogRequestFields == {"recipientEmail"}

\* POST /send-log-email
send_log_email(body, dir, net) ==
    IF ~HasAll(body, LogRequestFields)
    THEN Outcome(RequestValidationError, <<>>, <<>>)
    ELSE
    LET logContent == IF "logContent" \in DOMAIN body THEN body.logContent ELSE NoneStr
        fileName == IF "fileName" \in DOMAIN body THEN body.fileName ELSE "logs.pdf"
    IN
    IF EmptyLogContent(logContent)
    THEN Outcome(HTTPException(400, "Empty log content received."), <<>>, <<>>)
    ELSE
    LET pdf == log_to_pdf_bytes("Node.js Logs", fileName, logContent.s) IN
    IF pdf.exc # None
    THEN Outcome(Unhandled(pdf.exc), <<>>, <<"PDF">>)
    ELSE
    LET attachments ==
            <<[bytes |-> pdf.bytes, filename |-> <<"nodejs-", fileName, ".pdf">>]>>
            \o gather_service_logs(dir)
        call == send_email(
                    Mail(body.recipientEmail,
                         <<"Logs Received - ", fileName>>,
                         <<"Attached are the logs collected from Node.js and the email service.">>,
                         <<"<h2>Logs Received</h2>">>,
                         attachments), net)
    IN  IF call.raised # None
        THEN Outcome(Unhandled(call.raised), <<call>>, <<"PDF", "READ_LOGS">>)
        ELSE IF call.ret
        THEN Outcome(Response(200,
                         [status |-> "success",
                          message |-> <<"Logs (Node.js + service) sent as PDFs to ",
                                        body.recipientEmail>>],
                         FALSE),
                     <<call>>, <<"PDF", "READ_LOGS">>)
        ELSE Outcome(HTTPException(500, "Failed to send email"),
                     <<call>>, <<"PDF", "READ_LOGS">>)

\* class NoLogsEmailRequest(BaseModel): recipientEmail required, date defaults to ""
NoLogsRequestFields == {"recipientEmail"}

\* POST /send-no-logs-email
send_no_logs(body, net) ==
    IF ~HasAll(body, NoLogsRequestFields)
    THEN Outcome(RequestValidationError, <<>>, <<>>)
    ELSE
    LET date == IF "date" \in DOMAIN body THEN body.date ELSE ""
        call == send_no_logs_email(body.recipientEmail, date, net)
    IN  IF call.raised # None
        THEN Outcome(HTTPException(500, call.raised), <<call>>, <<>>)
        ELSE IF ~call.ret
        THEN Outcome(HTTPException(500, "500: Failed to send no-logs email"),
                     <<call>>, <<>>)
        ELSE Outcome(Response(200, [message |-> "No-logs email sent successfully"], FALSE),
                     <<call>>, <<>>)

\* class NotificationEmailRequest(BaseModel): receiverEmail and message, both required
NotificationRequestFields == {"receiverEmail", "message"}

\* POST /send-notification-email
send_notification(body, net) ==
    IF ~HasAll(body, NotificationRequestFields)
    THEN Outcome(RequestValidationError, <<>>, <<>>)
    ELSE
    LET call == send_notification_email(body.receiverEmail, body.message, net)
    IN  IF call.raised # None
        THEN Outcome(HTTPException(500, call.raised), <<call>>, <<>>)
        ELSE IF ~call.ret
        THEN Outcome(HTTPException(500, "500: Failed to send notification email"),
                     <<call>>, <<>>)
        ELSE Outcome(Response(200, [message |-> "Notification email sent successfully"],
                              FALSE),
                     <<call>>, <<>>)

-----------------------------------------------------------------------------
(* The requests the services are sent *)

\* a body with the fields of `has`, each with the value `value` gives it
BodyOf(has, value) == [f \in has |-> value[f]]

\* bodies lack at most this many of the fields their model knows
MaxMissing == 1

FieldSets(fields) == { has \in SUBSET fields : Cardinality(fields \ has) <= MaxMissing }

EmailTypes == {"", "newsletter"} \cup KnownTypes
Recipients == {"", "user@mail"}
DataDicts == UNION { [K -> {"V"}] : K \in SUBSET DataKeys }

EmailBodies ==
    { BodyOf(has, [type |-> t, to |-> r, data |-> d]) :
        has \in FieldSets(EmailRequestFields),
        t \in EmailTypes, r \in Recipients, d \in DataDicts }

LogContents == { NoneStr, Str(<<>>), Str(<<" ", "\n">>), Str(<<" ", "l", "o", "g">>) }
FileNames == {"</b>"}

LogBodies ==
    { BodyOf(has, [logContent |-> c, fileName |-> n, recipientEmail |-> "ops@mail"]) :
        has \in FieldSets({"logContent", "fileName", "recipientEmail"}),
        c \in LogContents, n \in FileNames }

NoLogsBodies ==
    { BodyOf(has, [recipientEmail |-> "ops@mail", date |-> "2024-01-01"]) :
        has \in FieldSets({"recipientEmail", "date"}) }

NotificationBodies ==
    { BodyOf(has, [receiverEmail |-> "ops@mail", message |-> "hello"]) :
        has \in FieldSets({"receiverEmail", "message"}) }

\* server.login(EMAIL_SENDER, EMAIL_PASSWORD) cannot succeed with None for either
NetPossible(sender, password, net) ==
    (sender = None \/ password = None)
        => net \in {"build_raises", "connect_raises", "login_raises"}

Request(service, op, body) == [service |-> service, op |-> op, body |-> body]

\* the logs directory of an exchange that did not look into it
Unseen == [fname \in {"fastapi.log", "email_service.log"} |-> "unseen"]

NoRequest == Request("none", "none", <<>>)
NoResponse == Response(0, <<>>, FALSE)

\* the exchange in `req`, `resp` is over: the response has left the service
ResponseSent ==
    /\ req # NoRequest
    /\ req' = NoRequest
    /\ resp' = NoResponse
    /\ calls' = <<>>
    /\ fx' = <<>>
    /\ logsDir' = Unseen
    /\ UNCHANGED <<environ, schVars, kaVars, loggerVars, timeVars>>

\* a request is handled with the logs directory in the state `dir`
HandledIn(request, outcome, dir) ==
    /\ req = NoRequest
    /\ req' = request
    /\ resp' = outcome.resp
    /\ calls' = outcome.calls
    /\ fx' = outcome.fx
    /\ logsDir' = IF \E n \in 1..Len(outcome.fx) : outcome.fx[n] = "READ_LOGS"
                  THEN dir ELSE Unseen
    /\ UNCHANGED <<environ, schVars, kaVars, loggerVars, timeVars>>

Handled(request, outcome) == HandledIn(request, outcome, Unseen)

PostApiSendEmail ==
    \E body \in EmailBodies, net \in SmtpOutcomes :
        /\ NetPossible(EMAIL_SENDER, EMAIL_PASSWORD, net)
        /\ Handled(Request("transactional", "POST /api/send-email", body),
                   api_send_email(body, EMAIL_SENDER, EMAIL_PASSWORD, net))

GetDebug ==
    Handled(Request("transactional", "GET /debug", <<>>),
            Outcome(Response(200, debug_env(environ), FALSE), <<>>, <<>>))

GetRoot ==
    Handled(Request("transactional", "GET /", <<>>),
            Outcome(Response(200, root(environ), FALSE), <<>>, <<>>))

PostSendLogEmail ==
    /\ LogServiceServing
    /\ \E body \in LogBodies, dir \in LogDirs, net \in SmtpOutcomes :
        /\ NetPossible(EMAIL_SENDER, EMAIL_PASSWORD, net)
        /\ HandledIn(Request("log", "POST /send-log-email", body),
                     send_log_email(body, dir, net), dir)

PostSendNoLogsEmail ==
    /\ LogServiceServing
    /\ \E body \in NoLogsBodies, net \in SmtpOutcomes :
        /\ NetPossible(EMAIL_SENDER, EMAIL_PASSWORD, net)
        /\ Handled(Request("log", "POST /send-no-logs-email", body),
                   send_no_logs(body, net))

PostSendNotificationEmail ==
    /\ LogServiceServing
    /\ \E body \in NotificationBodies, net \in SmtpOutcomes :
        /\ NetPossible(EMAIL_SENDER, EMAIL_PASSWORD, net)
        /\ Handled(Request("log", "POST /send-notification-email", body),
                   send_notification(body, net))

GetLogRoot ==
    /\ LogServiceServing
    /\ Handled(Request("log", "GET /", <<>>),
               Outcome(Response(200, [message |-> "Divinely Bot Email Service is up."],
                                FALSE), <<>>, <<>>))

-----------------------------------------------------------------------------
(* Logger configuration: src/src/email_service/logger_config.py *)

ENVIRONMENT_KEY == <<"ENVIRONMENT">>

EnvironmentValues == {"development", "Development", "production"}

\* str.lower() on the labels above
Lower(s) == IF s = "Development" THEN "development" ELSE s

\* ENV = os.getenv("ENVIRONMENT", "development").lower()
ENV(env) ==
    Lower(IF ENVIRONMENT_KEY \in DOMAIN env THEN env[ENVIRONMENT_KEY] ELSE "development")

\* the names loggers are asked for; "" names the root logger
LoggerNames == {"", "email_service", "src.main"}
Levels == {"INFO", "DEBUG"}

\* logging.getLogger(name) before any set-up: no level of its own, no handler
NoLoggers == [name \in LoggerNames |-> [level |-> "NOTSET", handlers |-> <<>>]]

NoLogCall == [name |-> "", level |-> "NOTSET", exc |-> None, first |-> FALSE, added |-> 0]

\* opening the log file of a TimedRotatingFileHandler: done, or OSError
OpenOutcomes == {"ok", "raises"}

\* `if logger.handlers` taking every logger for one without handlers
HasHandlersNever(logger) == FALSE

\* `if logger.handlers`
HasHandlers(logger) == logger.handlers # <<>>

\* get_logger(name, level): the registry afterwards, and the exception if it raised
get_logger(registry, env, name, level, open) ==
    LET logger == registry[name] IN
    IF HasHandlers(logger)
    THEN [registry |-> registry, exc |-> None]
    ELSE IF ENV(env) = "development"
    THEN [registry |->
             [registry EXCEPT ![name] =
                 [level |-> level,
                  handlers |-> Append(logger.handlers,
                      [kind |-> "StreamHandler", level |-> level, filename |-> <<>>])]],
          exc |-> None]
    ELSE IF open = "raises"
    THEN [registry |-> [registry EXCEPT ![name].level = level], exc |-> "OSError"]
    ELSE [registry |->
             [registry EXCEPT ![name] =
                 [level |-> level,
                  handlers |-> Append(logger.handlers,
                      [kind |-> "TimedRotatingFileHandler", level |-> level,
                       filename |-> <<"logs/", name, ".log">>])]],
          exc |-> None]

\* some code of the process calls get_logger
GetLogger ==
    \E name \in LoggerNames, level \in Levels, open \in OpenOutcomes :
        LET r == get_logger(loggers, environ, name, level, open) IN
        /\ loggers' = r.registry
        /\ acquired' = IF r.exc = None THEN acquired \cup {name} ELSE acquired
        /\ logCall' = [name |-> name, level |-> level, exc |-> r.exc,
                       first |-> name \notin acquired,
                       added |-> Len(r.registry[name].handlers)
                                    - Len(loggers[name].handlers)]
        /\ UNCHANGED <<environ, schVars, kaVars, httpVars, timeVars>>

-----------------------------------------------------------------------------

\* the processes as they start, whatever their environment
Started ==
    /\ schPc = "try"
    /\ schAttempt = 0
    /\ schLog = <<>>
    /\ runners = 0
    /\ atexitHooks = 0
    /\ kaPc = "idle"
    /\ kaI = 0
    /\ kaLog = <<>>
    /\ req = NoRequest
    /\ resp = NoResponse
    /\ calls = <<>>
    /\ fx = <<>>
    /\ logsDir = Unseen
    /\ loggers = NoLoggers
    /\ acquired = {}
    /\ logCall = NoLogCall
    /\ kaElapsed = 0
    /\ kaLongest = 0
    /\ kaSkipped = 0
    /\ kaOverlap = 0

Init ==
    /\ \E e \in Environs, f \in DotenvFiles : environ = load_environment_variables(e, f)
    /\ Started

Next ==
    \/ \E o \in StartOutcomes : SchedulerAttempt(o)
    \/ SchedulerSleep
    \/ KeepAliveInvoke /\ UNCHANGED timeVars
    \/ \E o \in GetOutcomes : KeepAliveAttempt(o) /\ UNCHANGED timeVars
    \/ KeepAliveSleep /\ UNCHANGED timeVars
    \/ PostApiSendEmail
    \/ GetDebug
    \/ GetRoot
    \/ PostSendLogEmail
    \/ PostSendNoLogsEmail
    \/ PostSendNotificationEmail
    \/ GetLogRoot
    \/ ResponseSent

Spec == Init /\ [][Next]_vars

-----------------------------------------------------------------------------
(* The logger set-up as a specification of its own *)

\* the environments of a process that configures its loggers
LoggerEnvirons == UNION { [K -> EnvironmentValues] : K \in SUBSET {ENVIRONMENT_KEY} }

InitLogger ==
    /\ \E e \in LoggerEnvirons, f \in DotenvFiles : environ = load_dotenv(e, f)
    /\ Started

NextLogger == GetLogger

SpecLogger == InitLogger /\ [][NextLogger]_vars

-----------------------------------------------------------------------------
(* The keep-alive job on the scheduler's clock *)

\* CronTrigger.from_crontab("*/12 * * * *"): seconds from one firing to the next
period == 720

\* add_job() without max_instances: the scheduler's default
max_instances == 1

\* requests.get(url, timeout=10): the longest wait for the connection or for the
\* next bytes of the response
timeout == 10

\* time.sleep(5) of the retry loop
retry_sleep == 5

\* seconds one GET can take: the timeout bounds each wait on the socket, not the
\* whole GET, so a response that keeps arriving in pieces goes on past it
GetSeconds == {1, timeout, 400}

\* a scheduler that starts the job at every firing, whatever is running
InstanceAllowedAlways(running) == TRUE

\* the scheduler starts the job at a firing only below max_instances running
\* instances of it; otherwise the firing is skipped
InstanceAllowed(running) == running < max_instances

\* the firings that fall in the seconds (from, to] after the one that started the
\* execution in progress
FiringsIn(from, to) == (to \div period) - (from \div period)

\* d seconds pass while one execution is in progress
Elapse(d) ==
    LET due == FiringsIn(kaElapsed, kaElapsed + d) IN
        /\ kaElapsed' = kaElapsed + d
        /\ IF InstanceAllowed(1)
           THEN kaOverlap' = kaOverlap + due /\ UNCHANGED kaSkipped
           ELSE kaSkipped' = kaSkipped + due /\ UNCHANGED kaOverlap

\* a firing with no execution in progress starts one
KeepAliveFiring ==
    /\ KeepAliveInvoke
    /\ kaElapsed' = 0
    /\ kaLongest' = 0
    /\ kaSkipped' = 0
    /\ kaOverlap' = 0

\* one GET of the execution, taking d seconds; a timeout is raised no sooner than
\* after the timeout
KeepAliveGet(outcome, d) ==
    /\ KeepAliveAttempt(outcome)
    /\ outcome.exc = "Timeout" => d >= timeout
    /\ Elapse(d)
    /\ kaLongest' = IF d > kaLongest THEN d ELSE kaLongest

KeepAliveSlept ==
    /\ KeepAliveSleep
    /\ Elapse(retry_sleep)
    /\ UNCHANGED kaLongest

\* the job's thread takes its next step
KeepAliveStep ==
    \/ KeepAliveFiring
    \/ \E o \in GetOutcomes, d \in GetSeconds : KeepAliveGet(o, d)
    \/ KeepAliveSlept

NextTimed ==
    \/ \E o \in StartOutcomes : SchedulerAttempt(o)
    \/ SchedulerSleep
    \/ KeepAliveFiring
    \/ \E o \in GetOutcomes, d \in GetSeconds : KeepAliveGet(o, d)
    \/ KeepAliveSlept
    \/ PostSendNoLogsEmail
    \/ GetLogRoot
    \/ ResponseSent

SpecTimed == Init /\ [][NextTimed]_vars

-----------------------------------------------------------------------------
(* Properties *)

IsGet(entry) == entry.ev = "GET"
GetFailed(entry) == entry.ev = "GET" /\ (entry.exc # None \/ entry.n # 200)
CountOf(log, Test(_)) == Cardinality({ n \in 1..Len(log) : Test(log[n]) })
IsSleep(entry) == entry.ev = "SLEEP"
UrlSet == API_URL_KEY \in DOMAIN environ /\ environ[API_URL_KEY] # ""

\* C1: one invocation of keep_alive_job issues GETs one after another until the
\* first 200 or until 3 GETs, with a 5-second sleep between consecutive attempts
\* only; with every GET failing it does exactly 3 GETs and 2 sleeps and returns
\* without raising; with API_URL unset it issues no GET and returns.
KeepAliveBoundedRetry ==
    /\ kaPc # "raised"
    /\ \A n \in 1..Len(kaLog) :
          /\ kaLog[n].ev = (IF n % 2 = 1 THEN "GET" ELSE "SLEEP")
          /\ IsSleep(kaLog[n]) => kaLog[n].n = 5
          /\ n < Len(kaLog) /\ IsGet(kaLog[n]) => GetFailed(kaLog[n])
    /\ CountOf(kaLog, IsGet) <= 3
    /\ CountOf(kaLog, IsSleep) <= 2
    /\ ~UrlSet => kaLog = <<>> /\ kaPc \in {"idle", "returned"}
    /\ kaPc = "attempt" => kaLog = <<>> \/ IsSleep(kaLog[Len(kaLog)])
    /\ kaPc = "sleep" => kaLog # <<>> /\ GetFailed(kaLog[Len(kaLog)])
    /\ (kaPc = "returned" /\ UrlSet) =>
          /\ kaLog # <<>>
          /\ IsGet(kaLog[Len(kaLog)])
          /\ ~GetFailed(kaLog[Len(kaLog)]) \/ CountOf(kaLog, IsGet) = 3
          /\ GetFailed(kaLog[Len(kaLog)]) =>
                CountOf(kaLog, IsGet) = 3 /\ CountOf(kaLog, IsSleep) = 2

\* every GET of a finished invocation failed, by a status and by a transport error
KeepAliveExhausted ==
    /\ kaPc = "returned"
    /\ Len(kaLog) = 5
    /\ \A n \in {1, 3, 5} : GetFailed(kaLog[n])
    /\ \E n \in {1, 3, 5} : kaLog[n].exc # None
    /\ \E n \in {1, 3, 5} : kaLog[n].exc = None

IsSendEmailPost == req.op = "POST /api/send-email"

\* a field of the body of POST /api/send-email is missing or empty
FieldMissingOrEmpty(body) ==
    \/ "type" \notin DOMAIN body
    \/ "to" \notin DOMAIN body
    \/ "data" \notin DOMAIN body
    \/ ("type" \in DOMAIN body /\ body.type = "")
    \/ ("to" \in DOMAIN body /\ body.to = "")
    \/ ("data" \in DOMAIN body /\ DOMAIN body.data = {})

SenderOrCredentialUnset == EMAIL_SENDER = None \/ EMAIL_PASSWORD = None

NoSmtp == \A n \in 1..Len(calls) : calls[n].smtp = <<>>

\* C2: POST /api/send-email with any of type, to, data missing or empty is
\* answered with 400 and makes no SMTP connection or other outbound call.
MissingFieldIs400 ==
    (IsSendEmailPost /\ FieldMissingOrEmpty(req.body)) =>
        resp.status = 400 /\ NoSmtp

\* C3: POST /api/send-email with non-empty type, to and data while the sender
\* address or credential is unset is answered with 500 (Unconfigured) for every
\* type, and neither template rendering nor an SMTP session is started.
UnconfiguredIs500 ==
    (IsSendEmailPost /\ ~FieldMissingOrEmpty(req.body) /\ SenderOrCredentialUnset) =>
        /\ resp.status = 500
        /\ resp.body.detail = "Email service not configured - Environment variables missing"
        /\ fx = <<>>
        /\ calls = <<>>

\* an unconfigured service answers 500 to a complete request of an unknown type
UnconfiguredUnknownType ==
    /\ IsSendEmailPost
    /\ ~FieldMissingOrEmpty(req.body)
    /\ req.body.type = "newsletter"
    /\ EMAIL_SENDER # None
    /\ EMAIL_PASSWORD = None
    /\ resp.status = 500

\* a request of the Log & Notification API that reaches a sender
LogMailRequest ==
    \/ /\ req.op = "POST /send-log-email"
       /\ "recipientEmail" \in DOMAIN req.body
       /\ "logContent" \in DOMAIN req.body
       /\ req.body.logContent.some
       /\ \E n \in 1..Len(req.body.logContent.s) :
             req.body.logContent.s[n] \notin {" ", "\t", "\n"}
    \/ /\ req.op = "POST /send-no-logs-email"
       /\ "recipientEmail" \in DOMAIN req.body
    \/ /\ req.op = "POST /send-notification-email"
       /\ {"receiverEmail", "message"} \subseteq DOMAIN req.body

\* C4: with the sender address or credential unset, the three POSTs of the Log &
\* Notification API fail without attempting to send: no SMTP session is opened
\* and no login is attempted.
UnconfiguredLogMailNotAttempted ==
    (LogMailRequest /\ SenderOrCredentialUnset) =>
        resp.status = 500 /\ NoSmtp

\* logContent is absent, empty or whitespace only
BlankLogContent(body) ==
    \/ "logContent" \notin DOMAIN body
    \/ ~body.logContent.some
    \/ \A n \in 1..Len(body.logContent.s) : body.logContent.s[n] \in {" ", "\t", "\n"}

\* C5: POST /send-log-email (a body that carries its recipientEmail) whose
\* logContent is absent, empty or whitespace-only is answered with 400; the PDF is
\* not rendered, the logs directory is not read and send_email is not called.
EmptyLogContentIs400 ==
    (/\ req.op = "POST /send-log-email"
     /\ "recipientEmail" \in DOMAIN req.body
     /\ BlankLogContent(req.body)) =>
        /\ resp.status = 400
        /\ fx = <<>>
        /\ calls = <<>>

\* a whitespace-only logContent was answered
WhitespaceLogContentHandled ==
    /\ req.op = "POST /send-log-email"
    /\ "recipientEmail" \in DOMAIN req.body
    /\ "logContent" \in DOMAIN req.body
    /\ req.body.logContent.some
    /\ Len(req.body.logContent.s) = 2
    /\ BlankLogContent(req.body)
    /\ resp.status = 400

\* C6: send_email and send_email_via_smtp never raise to their caller: they
\* return true only when connecting, authenticating and transmitting all
\* succeeded, false when a step fails; a failed login transmits nothing.
SenderNeverRaises ==
    \A n \in 1..Len(calls) :
        /\ calls[n].raised = None
        /\ calls[n].ret \in BOOLEAN
        /\ calls[n].ret =>
              /\ calls[n].net = "ok"
              /\ \A step \in {"CONNECT", "LOGIN", "SEND"} :
                    \E k \in 1..Len(calls[n].smtp) : calls[n].smtp[k] = step
        /\ calls[n].net # "ok" => ~calls[n].ret
        /\ calls[n].net \in {"build_raises", "connect_raises", "login_raises"} =>
              \A k \in 1..Len(calls[n].smtp) : calls[n].smtp[k] # "SEND"

\* send_email returned false from a session that broke at the login
SenderLoginFailed ==
    /\ Len(calls) = 1
    /\ calls[1].fn = "send_email"
    /\ calls[1].net = "login_raises"
    /\ calls[1].smtp = <<"CONNECT", "LOGIN">>
    /\ calls[1].ret = FALSE
    /\ calls[1].raised = None

IsAttempt(entry) == entry.ev \in {"FAIL", "OK"}
EventsOf(log) == [n \in 1..Len(log) |-> log[n].ev]
LastOf(log) == log[Len(log)]

\* C7: start_scheduler_with_retry makes at most 3 attempts, sleeps 5 seconds after
\* each failed attempt but the last, stops at the first success and always
\* returns: after a success one runner runs, with one shutdown action registered;
\* after 3 failures none runs, none is registered, and the service goes on to serve.
SchedulerBootstrap ==
    /\ schPc # "raised"
    /\ \A n \in 1..Len(schLog) :
          /\ IF n % 2 = 1
             THEN IsAttempt(schLog[n]) /\ schLog[n].n = (n + 1) \div 2
             ELSE schLog[n].ev = "SLEEP" /\ schLog[n].n = 5
          /\ schLog[n].ev = "OK" => n = Len(schLog)
    /\ Len(schLog) <= 5
    /\ runners = (IF schLog # <<>> /\ LastOf(schLog).ev = "OK" THEN 1 ELSE 0)
    /\ atexitHooks = runners
    /\ kaPc # "idle" => runners = 1
    /\ schPc = "sleep" => schLog # <<>> /\ LastOf(schLog).ev = "FAIL"
    /\ schPc = "try" => schLog = <<>> \/ LastOf(schLog).ev = "SLEEP"
    /\ schPc = "returned" =>
          \/ LastOf(schLog).ev = "OK"
          \/ EventsOf(schLog) = <<"FAIL", "SLEEP", "FAIL", "SLEEP", "FAIL">>
    /\ schPc # "returned" =>
          ENABLED (SchedulerSleep \/ \E o \in StartOutcomes : SchedulerAttempt(o))
    /\ req.service = "log" => schPc = "returned"
    /\ (schPc = "returned" /\ req = NoRequest) => ENABLED GetLogRoot

\* the service answers a request after the scheduler failed to start 3 times
ServingWithoutScheduler ==
    /\ schPc = "returned"
    /\ EventsOf(schLog) = <<"FAIL", "SLEEP", "FAIL", "SLEEP", "FAIL">>
    /\ runners = 0
    /\ atexitHooks = 0
    /\ req.op = "POST /send-notification-email"
    /\ resp.status = 200

\* the subject, text and HTML of the template of a kind
RenderedFor(kind, data) ==
    CASE kind = "email_verification" -> email_verification_template(data)
      [] kind = "device_verification" -> device_verification_template(data)
      [] kind = "password_reset" -> password_reset_template(data)

\* C8: POST /api/send-email with non-empty fields and complete configuration: an
\* unrecognized type is answered with 400 and the sender is not called; a
\* recognized one calls the sender once with the subject, text and HTML rendered
\* for that kind, and is answered {success: true, message: "Email sent
\* successfully"} exactly when the sender returns true, with 500 when false.
DispatchByType ==
    (IsSendEmailPost /\ ~FieldMissingOrEmpty(req.body) /\ ~SenderOrCredentialUnset) =>
        IF req.body.type \notin {"email_verification", "device_verification",
                                 "password_reset"}
        THEN resp.status = 400 /\ calls = <<>>
        ELSE /\ Len(calls) = 1
             /\ calls[1].fn = "send_email_via_smtp"
             /\ calls[1].mail.to = req.body.to
             /\ [subject |-> calls[1].mail.subject, text |-> calls[1].mail.text,
                 html |-> calls[1].mail.html] = RenderedFor(req.body.type, req.body.data)
             /\ IF calls[1].ret
                THEN /\ resp.status = 200
                     /\ resp.body = [success |-> TRUE, message |-> "Email sent successfully"]
                ELSE resp.status = 500

\* a device verification mail was sent and confirmed
DeviceVerificationSent ==
    /\ IsSendEmailPost
    /\ ~FieldMissingOrEmpty(req.body)
    /\ ~SenderOrCredentialUnset
    /\ req.body.type = "device_verification"
    /\ Len(calls) = 1
    /\ calls[1].ret
    /\ resp.status = 200

\* C9: every request to a handler of either service ends in a response whose
\* status is 200, 400 or 500, and no exception leaves a handler unhandled.
EveryExceptionMapped ==
    req # NoRequest => resp.status \in {200, 400, 500} /\ ~resp.unhandled

\* the two environments agree on everything but the values of the sender
\* address and of the credential, which each has set or unset as the other has
DifferOnlyInMailValues(e1, e2) ==
    /\ DOMAIN e1 = DOMAIN e2
    /\ \A k \in DOMAIN e1 \ {EMAIL_SENDER_KEY, EMAIL_PASSWORD_KEY} : e1[k] = e2[k]

\* C10: the response of GET /debug depends on the sender address and on the
\* credential only through whether each is set: two runs that differ only in
\* their values return identical responses.
DebugShowsOnlySetness ==
    req.op = "GET /debug" =>
        \A other \in Environs :
            DifferOnlyInMailValues(environ, other) => debug_env(other) = resp.body

\* C11: after any sequence of get_logger calls, every logger that was acquired has
\* exactly one registered output sink: the first acquisition for a name adds one
\* handler, every later acquisition for it returns the same logger and adds none.
LoggerHasOneSink ==
    /\ \A name \in acquired : Len(loggers[name].handlers) = 1
    /\ logCall.exc = None /\ logCall # NoLogCall =>
          /\ logCall.name \in acquired
          /\ logCall.added = (IF logCall.first THEN 1 ELSE 0)

\* a logger was acquired again, at another level than the one it was set up with
LoggerAcquiredAgain ==
    /\ logCall.exc = None
    /\ logCall.name = "email_service"
    /\ ~logCall.first
    /\ logCall.added = 0
    /\ logCall.level # loggers["email_service"].level
    /\ Len(loggers["email_service"].handlers) = 1

\* the request is a POST /send-log-email with its recipient and a logContent that
\* is not blank
IsLogEmailWithContent ==
    /\ req.op = "POST /send-log-email"
    /\ "recipientEmail" \in DOMAIN req.body
    /\ ~BlankLogContent(req.body)

FileNameOf(body) == IF "fileName" \in DOMAIN body THEN body.fileName ELSE "logs.pdf"

\* the names of the attachments the claim expects, in order
ExpectedAttachmentNames(body, dir) ==
    <<<<"nodejs-", FileNameOf(body), ".pdf">>>>
    \o (IF dir["fastapi.log"] = "readable" THEN <<<<"fastapi.log">>>> ELSE <<>>)
    \o (IF dir["email_service.log"] = "readable" THEN <<<<"email_service.log">>>> ELSE <<>>)

\* one email went through send_email with the expected attachments, and the
\* response follows what send_email returned
OneCompositeEmail ==
    /\ Len(calls) = 1
    /\ calls[1].fn = "send_email"
    /\ calls[1].mail.to = req.body.recipientEmail
    /\ [n \in 1..Len(calls[1].mail.attachments) |-> calls[1].mail.attachments[n].filename]
          = ExpectedAttachmentNames(req.body, logsDir)
    /\ IF calls[1].ret
       THEN /\ resp.status = 200
            /\ resp.body.status = "success"
            /\ resp.body.message[Len(resp.body.message)] = req.body.recipientEmail
       ELSE resp.status = 500

\* C12: POST /send-log-email with non-empty logContent sends exactly one
\* email through send_email, attaching the PDF nodejs-<fileName>.pdf, then
\* fastapi.log, then email_service.log, each log only if it exists and can be
\* read; the response is a success naming the recipient exactly when send_email
\* returns true, and 500 when it returns false.
LogMailAlwaysSent == IsLogEmailWithContent => OneCompositeEmail

KeepAliveInProgress == kaPc \in {"attempt", "sleep"}

\* neither the job's thread nor a request handler waits for the other
TickAndRequestsIndependent ==
    /\ KeepAliveInProgress => ENABLED KeepAliveStep
    /\ KeepAliveInProgress /\ LogServiceServing /\ req = NoRequest => ENABLED GetLogRoot

\* C13 as claimed: no two executions of keep_alive_job are in progress at once;
\* an execution is at most 3 GETs of at most 10 seconds each plus at most 2 sleeps
\* of 5 seconds and always ends before the next firing, 12 minutes after its own;
\* a tick neither blocks nor is blocked by an HTTP request.
KeepAliveEndsBeforeNextFiring ==
    /\ kaOverlap = 0
    /\ CountOf(kaLog, IsGet) <= 3
    /\ CountOf(kaLog, IsSleep) <= 2
    /\ kaLongest <= 10
    /\ kaElapsed < 12 * 60
    /\ kaSkipped = 0
    /\ TickAndRequestsIndependent

\* C13 as amended: no two executions of keep_alive_job are in progress at once,
\* because the scheduler skips a firing that falls while one is in progress; an
\* execution is at most 3 GETs and 2 sleeps of 5 seconds, and when each GET takes
\* at most 10 seconds it lasts at most 40 seconds and no firing is skipped; a tick
\* neither blocks nor is blocked by an HTTP request.
KeepAliveNeverOverlaps ==
    /\ kaOverlap = 0
    /\ CountOf(kaLog, IsGet) <= 3
    /\ CountOf(kaLog, IsSleep) <= 2
    /\ kaLongest <= 10 => kaElapsed <= 40 /\ kaSkipped = 0
    /\ TickAndRequestsIndependent

\* an execution outlasted the period: its next firing was skipped while it was
\* still in progress, and a request was answered meanwhile
KeepAliveFiringSkipped ==
    /\ KeepAliveInProgress
    /\ kaElapsed > 12 * 60
    /\ kaSkipped = 1
    /\ kaOverlap = 0
    /\ req.op = "GET /"
    /\ req.service = "log"

====
